---- MODULE Spec2Model ----
(***************************************************************************)
(* Price-time priority order book (TradeDS::Book over TradeDS::SparseSet)  *)
(* and the multi-symbol MatchingEngine on top of it.                       *)
(*                                                                         *)
(* Pointers are modelled by integer handles.  An Order* is the order_id of *)
(* the order it points to, a Limit* is LimitHandle(side, tick) of the      *)
(* Limit that Book::insert allocated for that side and tick, nullptr is    *)
(* NULL.  A pointer value read from storage that was never initialised is  *)
(* GARBAGE: every read through it yields an arbitrary value or faults.     *)
(***************************************************************************)
EXTENDS Integers, Sequences, FiniteSets, TLC

VARIABLES books, order_book_map, fills, ret, top, call, crashed, calls,
          sset, inserted, frame

vars == <<books, order_book_map, fills, ret, top, call, crashed, calls,
          sset, inserted, frame>>

---------------------------------------------------------------------------
(* Bounds of the model: the inputs the driver draws from.                  *)

MaxId == 3

MaxPrice == 2

MaxVolume == 2

\* The number of engine calls the driver makes: on one symbol (Spec) and on
\* two (SpecMulti).
MaxCalls == 5

MaxCallsMulti == 4

\* The number of mutating calls next to get_top_of_book (SpecTop).
MaxCallsTop == 4

\* The number of inserts into the paged directory, and of distinct elements
\* inserted (SpecSparse).
MaxInserts == 3

MaxElement == 2

\* The number of calls made on a Book directly, and of distinct order ids
\* in them (SpecBook).
MaxCallsBook == 4

MaxBookId == 2

\* The number of engine calls when one of them is followed statement by
\* statement, and the number of calls before a pull_order that is (SpecLoops).
MaxCallsLoops == 4

MaxCallsScan == 2

---------------------------------------------------------------------------
(* Program constants.                                                      *)

NULL == 0

GARBAGE == -1

FAULT == -2

PAGE_SIZE == 4096

INITIAL_SIZE == 4096

PTR_BYTES == 8

UNIT == 1

SymbolList == <<"X">>

MultiSymbolList == <<"X", "Y">>

Sides == {"Buy", "Sell"}

\* Page::Page: memset(container, 0, size) clears `size` BYTES of an array of
\* `size` elements, i.e. only the first size / sizeof(T) slots.
ZeroedSlots == PAGE_SIZE \div PTR_BYTES

---------------------------------------------------------------------------
(* Generic helpers.                                                        *)

Min(S) == CHOOSE x \in S : \A y \in S : x <= y

Max(S) == CHOOSE x \in S : \A y \in S : x >= y

EmptyMap == [x \in {} |-> NULL]

MapPut(f, k, v) == [x \in DOMAIN f \cup {k} |-> IF x = k THEN v ELSE f[x]]

MapErase(f, k) == [x \in DOMAIN f \ {k} |-> f[x]]

RECURSIVE SumSeq(_)
SumSeq(s) == IF s = <<>> THEN 0 ELSE Head(s) + SumSeq(Tail(s))

---------------------------------------------------------------------------
(* TradeDS::SparseSet<T>.  pages is the vector<Page*>: an entry is either  *)
(* a null page pointer (alloc = FALSE) or a page, of which the model keeps *)
(* the slots written so far; an unwritten slot of a page is zero when the  *)
(* constructor's memset reached it and uninitialised otherwise.            *)

NullPage == [alloc |-> FALSE, slots |-> EmptyMap]

FreshPage == [alloc |-> TRUE, slots |-> EmptyMap]

SparseSetNew(size) ==
    [pages |-> [i \in 1..((size \div PAGE_SIZE) + 1) |-> FreshPage]]

SparseSetSize(ss) == PAGE_SIZE * Len(ss.pages)

PageIdx(index) == index \div PAGE_SIZE

InPageIdx(index) == index % PAGE_SIZE

\* vector::resize keeps the old entries and value-initialises the new ones.
PagesResize(pages, n) ==
    [i \in 1..n |-> IF i <= Len(pages) THEN pages[i] ELSE NullPage]

SparseSetInsert(ss, index, element) ==
    LET grown == IF PageIdx(index) >= Len(ss.pages)
                 THEN PagesResize(ss.pages, PageIdx(index) * 2)
                 ELSE ss.pages
        page == IF grown[PageIdx(index) + 1].alloc
                THEN grown[PageIdx(index) + 1]
                ELSE FreshPage
    IN  [pages |-> [grown EXCEPT ![PageIdx(index) + 1] =
                       [page EXCEPT !.slots =
                           MapPut(page.slots, InPageIdx(index), element)]]]

\* operator[]: the set of values the read can return.  index is the
\* uint64_t the caller's argument converts to; a negative argument wraps
\* to a value beyond every page table.
SparseSetGet(ss, index) ==
    IF index < 0 \/ PageIdx(index) >= Len(ss.pages) THEN {NULL}
    ELSE LET page == ss.pages[PageIdx(index) + 1]
         IN  IF ~page.alloc THEN {NULL}
             ELSE IF InPageIdx(index) \in DOMAIN page.slots
                  THEN {page.slots[InPageIdx(index)]}
             ELSE IF InPageIdx(index) < ZeroedSlots THEN {NULL}
             ELSE {NULL, GARBAGE}

\* The indices written so far, and the indices whose read is indeterminate.
SparseSetWritten(ss) ==
    UNION {{(p - 1) * PAGE_SIZE + o : o \in DOMAIN ss.pages[p].slots} :
           p \in {q \in 1..Len(ss.pages) : ss.pages[q].alloc}}

---------------------------------------------------------------------------
(* TradeDS::Order, TradeDS::Limit and TradeDS::Book.                       *)

SideBit(side) == IF side = "Buy" THEN 0 ELSE 1

\* The Limit object that Book::insert allocates for `side` at `tick`.
LimitHandle(side, tick) == 2 * tick + SideBit(side)

\* Mutant of NewOrder: the constructor does not store the volume.
NewOrder_VolumeNotStored(order_id, side, limitPrice, volume) ==
    [order_id |-> order_id, side |-> side, price |-> limitPrice,
     volume |-> 0, limit |-> NULL, prev |-> NULL, next |-> NULL]

NewOrder(order_id, side, limitPrice, volume) ==
    [order_id |-> order_id, side |-> side, price |-> limitPrice,
     volume |-> volume, limit |-> NULL, prev |-> NULL, next |-> NULL]

\* Mutant of NewLimit: the constructor does not store the price.
NewLimit_PriceNotStored(limitPrice) ==
    [price |-> 0, size |-> 0, volume |-> 0,
     front_order |-> NULL, tail_order |-> NULL]

NewLimit(limitPrice) ==
    [price |-> limitPrice, size |-> 0, volume |-> 0,
     front_order |-> NULL, tail_order |-> NULL]

NewBook(symbol, unit) ==
    [symbol |-> symbol, unit |-> unit,
     orders |-> EmptyMap,
     limits |-> EmptyMap,
     buy_set |-> SparseSetNew(INITIAL_SIZE),
     sell_set |-> SparseSetNew(INITIAL_SIZE),
     order_count |-> 0, buy_volume |-> 0, sell_volume |-> 0,
     highest_buy |-> NULL, lowest_sell |-> NULL]

\* What a Book method leaves behind: the book, the method's return value,
\* and fault = TRUE when it dereferenced a null or garbage pointer (the
\* behaviour is undefined from there on; the model stops the program).
Done(b, r) == [fault |-> FALSE, book |-> b, ret |-> r]

Faulted(b) == [fault |-> TRUE, book |-> b, ret |-> NULL]

\* Book::detach returns the Order object it took out of the book.
Detached(b, o) == [fault |-> FALSE, book |-> b, ret |-> o.order_id, order |-> o]

\* Mutant of Exist: no order id is found in the book.
Exist_Never(b, order_id) == FALSE

Exist(b, order_id) == order_id \in DOMAIN b.orders

SideSet(b, side) == IF side = "Buy" THEN b.buy_set ELSE b.sell_set

BestOf(b, side) == IF side = "Buy" THEN b.highest_buy ELSE b.lowest_sell

SetBest(b, side, h) ==
    IF side = "Buy" THEN [b EXCEPT !.highest_buy = h]
                    ELSE [b EXCEPT !.lowest_sell = h]

\* Mutant of AddSideVolume: every volume change is booked on the buy side.
AddSideVolume_BuyOnly(b, side, diff) == [b EXCEPT !.buy_volume = @ + diff]

AddSideVolume(b, side, diff) ==
    IF side = "Buy" THEN [b EXCEPT !.buy_volume = @ + diff]
                    ELSE [b EXCEPT !.sell_volume = @ + diff]

\* Book::insert, "Adjust Best offer": the values the cached best can take.
\* A garbage best makes the price comparison read arbitrary memory.
InsertBest(b, side, target) ==
    LET best == BestOf(b, side)
    IN  IF best = NULL THEN {target}
        ELSE IF best = GARBAGE THEN {GARBAGE, target, FAULT}
        ELSE IF side = "Buy"
             THEN {IF b.limits[best].price >= b.limits[target].price
                   THEN best ELSE target}
             ELSE {IF b.limits[best].price <= b.limits[target].price
                   THEN best ELSE target}

\* Book::insert from "insert into right limit" on, for a target_limit that
\* is null (the Limit is created) or a Limit of the book.
InsertAt(b, new_order, limit_idx, found) ==
    LET side == new_order.side
        target == IF found = NULL THEN LimitHandle(side, limit_idx) ELSE found
        b1 == IF found # NULL THEN b
              ELSE LET withLimit ==
                         [b EXCEPT !.limits =
                             MapPut(@, target, NewLimit(new_order.price))]
                   IN  IF side = "Buy"
                       THEN [withLimit EXCEPT !.buy_set =
                                SparseSetInsert(@, limit_idx, target)]
                       ELSE [withLimit EXCEPT !.sell_set =
                                SparseSetInsert(@, limit_idx, target)]
        lim == b1.limits[target]
        tail == lim.tail_order
        linked == IF lim.size = 0
                  THEN [new_order EXCEPT !.limit = target]
                  ELSE [new_order EXCEPT !.limit = target, !.prev = tail]
        orders1 == IF lim.size = 0 THEN b1.orders
                   ELSE [b1.orders EXCEPT ![tail].next = new_order.order_id]
        lim1 == IF lim.size = 0
                THEN [lim EXCEPT !.front_order = new_order.order_id,
                                 !.tail_order = new_order.order_id,
                                 !.size = @ + 1,
                                 !.volume = @ + new_order.volume]
                ELSE [lim EXCEPT !.tail_order = new_order.order_id,
                                 !.size = @ + 1,
                                 !.volume = @ + new_order.volume]
        b2 == AddSideVolume(
                [b1 EXCEPT !.limits = [@ EXCEPT ![target] = lim1],
                           !.orders = MapPut(orders1, new_order.order_id, linked),
                           !.order_count = @ + 1],
                side, new_order.volume)
    IN  {IF h = FAULT THEN Faulted(b2)
         ELSE Done(SetBest(b2, side, h), new_order.order_id) :
            h \in InsertBest(b2, side, target)}

\* Book::insert.  A garbage target_limit is written through: the model
\* stops there.
Insert(b, new_order) ==
    IF Exist(b, new_order.order_id) THEN {Done(b, NULL)}
    ELSE IF new_order.price % b.unit # 0 THEN {Done(b, NULL)}
    ELSE LET limit_idx == new_order.price \div b.unit
         IN  UNION {IF found = GARBAGE THEN {Faulted(b)}
                    ELSE InsertAt(b, new_order, limit_idx, found) :
                       found \in SparseSetGet(SideSet(b, new_order.side), limit_idx)}

\* Whether a slot with an index in lo..hi is uninitialised: it lies in an
\* allocated page beyond the part memset cleared and was never written.
HasUninit(ss, lo, hi) ==
    \E q \in 1..Len(ss.pages) :
        LET first == IF lo > (q - 1) * PAGE_SIZE + ZeroedSlots
                     THEN lo ELSE (q - 1) * PAGE_SIZE + ZeroedSlots
            last == IF hi < q * PAGE_SIZE - 1 THEN hi ELSE q * PAGE_SIZE - 1
            written == {o \in DOMAIN ss.pages[q].slots :
                           /\ (q - 1) * PAGE_SIZE + o >= first
                           /\ (q - 1) * PAGE_SIZE + o <= last}
        IN  /\ ss.pages[q].alloc
            /\ last - first + 1 > Cardinality(written)

\* Book::detach, "find next highest" / the lowest_sell loop: the values the
\* cached best can end with.  The loop reads the slots one tick at a time
\* from limit_idx towards lower (Buy) or higher (Sell) indices and stops at
\* the first non-null pointer whose size is read positive.  The result is
\* computed from the written slots instead of tick by tick: the nearest
\* populated Limit, or null when there is none, and, when an uninitialised
\* slot is read before that, whatever that slot holds.
Rescan(b, side, limit_idx) ==
    LET ss == SideSet(b, side)
        lo == IF side = "Buy" THEN 0 ELSE limit_idx + 1
        hi == IF side = "Buy" THEN limit_idx - 1 ELSE SparseSetSize(ss) - 1
        populated == {i \in SparseSetWritten(ss) :
                         /\ i >= lo
                         /\ i <= hi
                         /\ \A h \in SparseSetGet(ss, i) : b.limits[h].size > 0}
        nearest == IF side = "Buy" THEN Max(populated) ELSE Min(populated)
        gapLo == IF side = "Buy" /\ populated # {} THEN nearest + 1 ELSE lo
        gapHi == IF side = "Sell" /\ populated # {} THEN nearest - 1 ELSE hi
        clean == IF populated = {} THEN NULL
                 ELSE CHOOSE h \in SparseSetGet(ss, nearest) : TRUE
    IN  {clean} \cup (IF HasUninit(ss, gapLo, gapHi) THEN {GARBAGE, FAULT} ELSE {})

\* Book::detach, "2. detach from limit linked list": the order map without
\* the order, with its neighbours relinked (the four goto cases).
UnlinkOrders(b, o) ==
    LET lim == b.limits[o.limit]
        rest == MapErase(b.orders, o.order_id)
    IN  IF lim.front_order # o.order_id /\ lim.tail_order # o.order_id
        THEN [rest EXCEPT ![o.prev].next = o.next, ![o.next].prev = o.prev]
        ELSE IF lim.size = 1 THEN rest
        ELSE IF lim.front_order = o.order_id
             THEN [rest EXCEPT ![o.next].prev = NULL]
        ELSE [rest EXCEPT ![o.prev].next = NULL]

\* Mutant of UnlinkLimit: the Limit's front and tail pointers are left as
\* they were.
UnlinkLimit_CountersOnly(b, o) ==
    [b.limits[o.limit] EXCEPT !.size = @ - 1, !.volume = @ - o.volume]

\* The Limit after the unlink and CHANGE_META.
UnlinkLimit(b, o) ==
    LET lim == b.limits[o.limit]
        relinked ==
            IF lim.front_order # o.order_id /\ lim.tail_order # o.order_id
            THEN lim
            ELSE IF lim.size = 1
                 THEN [lim EXCEPT !.front_order = NULL, !.tail_order = NULL]
            ELSE IF lim.front_order = o.order_id
                 THEN [lim EXCEPT !.front_order = o.next]
            ELSE [lim EXCEPT !.tail_order = o.prev]
    IN  [relinked EXCEPT !.size = @ - 1, !.volume = @ - o.volume]

\* The detached Order object: which of its links each case clears.
Unlinked(b, o) ==
    LET lim == b.limits[o.limit]
    IN  IF lim.front_order # o.order_id /\ lim.tail_order # o.order_id
        THEN [o EXCEPT !.prev = NULL, !.next = NULL]
        ELSE IF lim.size = 1 THEN o
        ELSE IF lim.front_order = o.order_id THEN [o EXCEPT !.next = NULL]
        ELSE [o EXCEPT !.prev = NULL]

\* Book::detach, "if best offer is exhausted": what best->size == 0 reads.
\* A null best is dereferenced all the same.
BestExhausted(b, side) ==
    LET best == BestOf(b, side)
    IN  IF best = NULL THEN {"fault"}
        ELSE IF best = GARBAGE THEN {"yes", "no", "fault"}
        ELSE IF b.limits[best].size = 0 THEN {"yes"} ELSE {"no"}

\* Book::detach.
Detach(b, order_id) ==
    IF order_id \notin DOMAIN b.orders THEN {Done(b, NULL)}
    ELSE LET o == b.orders[order_id]
             b1 == AddSideVolume(
                     [b EXCEPT !.orders = UnlinkOrders(b, o),
                               !.limits = [@ EXCEPT ![o.limit] = UnlinkLimit(b, o)],
                               !.order_count = @ - 1],
                     o.side, 0 - o.volume)
             limit_idx == o.price \div b.unit
             detached == Unlinked(b, o)
         IN  UNION {IF e = "fault" THEN {Faulted(b1)}
                    ELSE IF e = "no" THEN {Detached(b1, detached)}
                    ELSE {IF h = FAULT THEN Faulted(b1)
                          ELSE Detached(SetBest(b1, o.side, h), detached) :
                             h \in Rescan(b1, o.side, limit_idx)} :
                       e \in BestExhausted(b1, o.side)}

\* Book::remove: detach, then delete the Order.
Remove(b, order_id) ==
    {[fault |-> r.fault, book |-> r.book, ret |-> ~r.fault /\ r.ret # NULL] :
        r \in Detach(b, order_id)}

\* Mutant of AmendVolume: the Limit's volume is left as it was.
AmendVolume_NotTheLimit(b, target_order, new_volume) ==
    AddSideVolume([b EXCEPT !.orders[target_order.order_id].volume = new_volume],
                  target_order.side, new_volume - target_order.volume)

\* Book::amend, "same price, simply change volume and metadata".
AmendVolume(b, target_order, new_volume) ==
    LET volume_diff == new_volume - target_order.volume
    IN  AddSideVolume(
          [b EXCEPT !.limits[target_order.limit].volume = @ + volume_diff,
                    !.orders[target_order.order_id].volume = new_volume],
          target_order.side, volume_diff)

\* Book::amend.
Amend(b, order_id, new_price, new_volume) ==
    IF ~Exist(b, order_id) THEN {Done(b, NULL)}
    ELSE IF new_price % b.unit # 0 THEN {Done(b, NULL)}
    ELSE LET target_order == b.orders[order_id]
         IN  IF target_order.price # new_price
             THEN UNION {IF d.fault THEN {d}
                         ELSE {IF i.fault THEN i ELSE Done(i.book, order_id) :
                                 i \in Insert(d.book,
                                              [d.order EXCEPT !.price = new_price,
                                                            !.volume = new_volume])} :
                            d \in Detach(b, order_id)}
             ELSE {Done(AmendVolume(b, target_order, new_volume), order_id)}

\* Book::get_best_offer_id: the ids it can return.  Through a garbage best
\* the front order's id is whatever the memory holds: null, any id (an id
\* the book does not hold is looked up like 0), or a fault.
GetBestOfferId(b, side) ==
    LET best == IF side = "Buy" THEN b.lowest_sell ELSE b.highest_buy
    IN  IF best = NULL THEN {NULL}
        ELSE IF best = GARBAGE THEN {NULL, FAULT} \cup DOMAIN b.orders
        ELSE {b.limits[best].front_order}

\* Book::get_order_by_id: a copy of the order, or the zero record.
GetOrderById(b, order_id) ==
    IF order_id \in DOMAIN b.orders
    THEN [order_id |-> order_id, side |-> b.orders[order_id].side,
          price |-> b.orders[order_id].price, volume |-> b.orders[order_id].volume]
    ELSE [order_id |-> 0, side |-> "Buy", price |-> 0, volume |-> 0]

---------------------------------------------------------------------------
(* MatchingEngine.  A method's outcome: the engine's two maps, the fills   *)
(* the call appended to the caller's vector, and its return value.         *)

Fill(other_order_id, trade_price, trade_volume) ==
    [other_order_id |-> other_order_id, trade_price |-> trade_price,
     trade_volume |-> trade_volume]

Outcome(bs, map, fs, r) ==
    [fault |-> FALSE, books |-> bs, map |-> map, fills |-> fs, ret |-> r]

FaultOutcome(bs, map) ==
    [fault |-> TRUE, books |-> bs, map |-> map, fills |-> <<>>, ret |-> FALSE]

\* Mutant of Satisfies: the Buy comparison is used for both sides.
Satisfies_BuyRuleForSell(side, best_price, price) == best_price <= price

\* add_order, the crossing test on the copy of the best counter order.
Satisfies(side, best_price, price) ==
    \/ side = "Buy" /\ best_price <= price
    \/ side = "Sell" /\ best_price >= price

\* Mutant of PartialFill: the fill reports the counter order's whole volume.
PartialFill_WholeCounter(best_id, best_price, best_volume, volume) ==
    Fill(best_id, best_price, best_volume)

\* add_order, "fulfill with single counter order": the fill it records.
PartialFill(best_id, best_price, best_volume, volume) ==
    Fill(best_id, best_price, volume)

\* add_order, the while loop: the books, remaining volumes and fills it can
\* end with.
RECURSIVE Match(_, _, _, _, _)
Match(b, side, price, volume, fs) ==
    IF volume <= 0
    THEN {[fault |-> FALSE, book |-> b, volume |-> volume, fills |-> fs]}
    ELSE UNION {
        IF id = FAULT
        THEN {[fault |-> TRUE, book |-> b, volume |-> volume, fills |-> fs]}
        ELSE LET best_match_copy == GetOrderById(b, id)
                 best_id == best_match_copy.order_id
                 best_price == best_match_copy.price
                 best_volume == best_match_copy.volume
             IN  IF best_id = 0 \/ ~Satisfies(side, best_price, price)
                 THEN {[fault |-> FALSE, book |-> b, volume |-> volume, fills |-> fs]}
                 ELSE IF best_volume > volume
                 THEN {[fault |-> r.fault, book |-> r.book, volume |-> 0,
                        fills |-> Append(fs, PartialFill(best_id, best_price,
                                                         best_volume, volume))] :
                          r \in Amend(b, best_id, best_price, best_volume - volume)}
                 ELSE UNION {
                        IF r.fault
                        THEN {[fault |-> TRUE, book |-> r.book,
                               volume |-> volume - best_volume, fills |-> fs]}
                        ELSE Match(r.book, side, price, volume - best_volume,
                                   Append(fs, Fill(best_id, best_price, best_volume))) :
                          r \in Remove(b, best_id)} :
        id \in GetBestOfferId(b, side)}

\* Mutant of AddRejects: only negative prices and volumes are refused.
AddRejects_NegativeOnly(map, order_id, symbol, price, volume) ==
    \/ order_id = 0
    \/ order_id \in DOMAIN map
    \/ symbol = ""
    \/ price < 0
    \/ volume < 0

\* add_order, the five early returns.
AddRejects(map, order_id, symbol, price, volume) ==
    \/ order_id = 0
    \/ order_id \in DOMAIN map
    \/ symbol = ""
    \/ price <= 0
    \/ volume <= 0

\* Mutant of add_order: the book of a new symbol replaces the books the
\* engine had.
add_order_BooksReplaced(bs, map, order_id, symbol, side, price, volume) ==
    IF AddRejects(map, order_id, symbol, price, volume)
    THEN {Outcome(bs, map, <<>>, FALSE)}
    ELSE IF symbol \notin DOMAIN bs
    THEN {IF i.fault THEN FaultOutcome(bs, map)
          ELSE Outcome(MapPut(EmptyMap, symbol, i.book), MapPut(map, order_id, symbol),
                       <<>>, TRUE) :
             i \in Insert(NewBook(symbol, UNIT), NewOrder(order_id, side, price, volume))}
    ELSE UNION {
           IF m.fault THEN {FaultOutcome(bs, map)}
           ELSE IF m.volume > 0
           THEN {IF i.fault THEN FaultOutcome(bs, map)
                 ELSE Outcome(MapPut(bs, symbol, i.book),
                              MapPut(map, order_id, symbol), m.fills, TRUE) :
                    i \in Insert(m.book, NewOrder(order_id, side, price, m.volume))}
           ELSE {Outcome(MapPut(bs, symbol, m.book), map, m.fills, TRUE)} :
        m \in Match(bs[symbol], side, price, volume, <<>>)}

\* MatchingEngine::add_order.
add_order(bs, map, order_id, symbol, side, price, volume) ==
    IF AddRejects(map, order_id, symbol, price, volume)
    THEN {Outcome(bs, map, <<>>, FALSE)}
    ELSE IF symbol \notin DOMAIN bs
    THEN {IF i.fault THEN FaultOutcome(bs, map)
          ELSE Outcome(MapPut(bs, symbol, i.book), MapPut(map, order_id, symbol),
                       <<>>, TRUE) :
             i \in Insert(NewBook(symbol, UNIT), NewOrder(order_id, side, price, volume))}
    ELSE UNION {
           IF m.fault THEN {FaultOutcome(bs, map)}
           ELSE IF m.volume > 0
           THEN {IF i.fault THEN FaultOutcome(bs, map)
                 ELSE Outcome(MapPut(bs, symbol, i.book),
                              MapPut(map, order_id, symbol), m.fills, TRUE) :
                    i \in Insert(m.book, NewOrder(order_id, side, price, m.volume))}
           ELSE {Outcome(MapPut(bs, symbol, m.book), map, m.fills, TRUE)} :
        m \in Match(bs[symbol], side, price, volume, <<>>)}

\* MatchingEngine::pull_order.
pull_order(bs, map, order_id) ==
    IF order_id \notin DOMAIN map THEN {Outcome(bs, map, <<>>, FALSE)}
    ELSE {IF r.fault THEN FaultOutcome(bs, map)
          ELSE Outcome(MapPut(bs, map[order_id], r.book), MapErase(map, order_id),
                       <<>>, TRUE) :
             r \in Remove(bs[map[order_id]], order_id)}

\* Mutant of VolumeNotBelow: an amend to the same volume counts as an
\* increase.
VolumeNotBelow_Strict(volume, new_active_volume) ==
    IF new_active_volume < 0 THEN FALSE ELSE volume > new_active_volume

\* Mutant of VolumeNotBelow: only the price decides the path of an amend.
VolumeNotBelow_PriceOnly(volume, new_active_volume) == TRUE

\* amend_order, `target_order_copy.volume >= new_active_volume`: the
\* uint64_t volume against the int64_t argument converted to uint64_t.  A
\* negative argument converts to at least 2^63, above every resting volume.
VolumeNotBelow(volume, new_active_volume) ==
    IF new_active_volume < 0 THEN FALSE ELSE volume >= new_active_volume

\* MatchingEngine::amend_order.
amend_order(bs, map, order_id, new_price, new_active_volume) ==
    IF order_id \notin DOMAIN map THEN {Outcome(bs, map, <<>>, FALSE)}
    ELSE IF new_price <= 0 THEN {Outcome(bs, map, <<>>, FALSE)}
    ELSE LET target_book == bs[map[order_id]]
             target_order_copy == GetOrderById(target_book, order_id)
         IN  IF /\ target_order_copy.price = new_price
                /\ VolumeNotBelow(target_order_copy.volume, new_active_volume)
             THEN {IF r.fault THEN FaultOutcome(bs, map)
                   ELSE Outcome(MapPut(bs, map[order_id], r.book), map, <<>>, TRUE) :
                      r \in Amend(target_book, order_id, new_price, new_active_volume)}
             ELSE UNION {
                    IF p.fault THEN {p}
                    ELSE {IF a.fault THEN a
                          ELSE Outcome(a.books, a.map, a.fills, TRUE) :
                             a \in add_order(p.books, p.map, order_id,
                                             target_book.symbol, target_order_copy.side,
                                             new_price, new_active_volume)} :
                    p \in pull_order(bs, map, order_id)}

\* struct BestBidOffer.
BestBidOffer(bid_volume, bid_price, ask_volume, ask_price) ==
    [bid_volume |-> bid_volume, bid_price |-> bid_price,
     ask_volume |-> ask_volume, ask_price |-> ask_price]

\* The snapshot the caller holds when the last call was not get_top_of_book.
NoTop == BestBidOffer(0, 0, 0, 0)

\* Book::get_highest_price / get_lowest_price: the prices the call can
\* return.  Through a garbage best the price is whatever the memory holds.
GetBestPrice(b, side) ==
    LET best == BestOf(b, side)
    IN  IF best = NULL THEN {0}
        ELSE IF best = GARBAGE THEN (0..MaxPrice) \cup {FAULT}
        ELSE {b.limits[best].price}

\* Book::get_volume_by_limit: the volumes the call can return.
GetVolumeByLimit(b, side, price) ==
    LET limit_idx == price \div b.unit
    IN  UNION {IF h = NULL THEN {0}
               ELSE IF h = GARBAGE THEN (0..MaxVolume) \cup {FAULT}
               ELSE {b.limits[h].volume} :
                  h \in SparseSetGet(SideSet(b, side), limit_idx)}

\* MatchingEngine::get_top_of_book: the snapshots it can return; fault when
\* a read through a garbage pointer faults.
get_top_of_book(bs, symbol) ==
    IF symbol \notin DOMAIN bs
    THEN {[fault |-> FALSE, top |-> BestBidOffer(0, 0, 0, 0)]}
    ELSE LET target_book == bs[symbol]
             VolumesAt(side, price) ==
                 IF price = FAULT THEN {FAULT}
                 ELSE GetVolumeByLimit(target_book, side, price)
         IN  UNION {UNION {UNION {
                 {IF FAULT \in {best_bid_price, best_ask_price, bid_volume, ask_volume}
                  THEN [fault |-> TRUE, top |-> NoTop]
                  ELSE [fault |-> FALSE,
                        top |-> BestBidOffer(bid_volume, best_bid_price,
                                             ask_volume, best_ask_price)] :
                     ask_volume \in VolumesAt("Sell", best_ask_price)} :
                   bid_volume \in VolumesAt("Buy", best_bid_price)} :
                 best_ask_price \in GetBestPrice(target_book, "Sell")} :
               best_bid_price \in GetBestPrice(target_book, "Buy")}

---------------------------------------------------------------------------
(* The driver: one engine call per step.  call records the arguments of   *)
(* the call when it returned true; a call that returned false records only *)
(* which method it was.                                                    *)

Call(op, order_id, symbol, side, price, volume) ==
    [op |-> op, order_id |-> order_id, symbol |-> symbol, side |-> side,
     price |-> price, volume |-> volume]

Rejected(op) == Call(op, 0, "", "Buy", 0, 0)

\* The engine treats order ids other than 0, and symbols other than "", alike:
\* it only compares them and uses them as keys.  Of the ids that the engine
\* holds nowhere the driver therefore offers one, the smallest, and of the
\* symbols without a book the first of SymbolList.
OrderIds ==
    LET unknown == (1..MaxId) \ DOMAIN order_book_map
    IN  {0} \cup DOMAIN order_book_map
            \cup (IF unknown = {} THEN {} ELSE {Min(unknown)})

Prices == 0..MaxPrice

Volumes == 0..MaxVolume

AmendVolumes == -1..MaxVolume

SymbolChoices(list) ==
    LET n == Cardinality(DOMAIN books)
    IN  {""} \cup DOMAIN books
             \cup (IF n < Len(list) THEN {list[n + 1]} ELSE {})

\* The locals of an engine call that is followed statement by statement
\* (SpecLoops): where it is, its arguments, of which volume is counted down
\* by add_order's loop, and limit_idx of Book::detach.  Idle when no such
\* call is running.
Frame(pc, order_id, symbol, side, price, volume, limit_idx) ==
    [pc |-> pc, order_id |-> order_id, symbol |-> symbol, side |-> side,
     price |-> price, volume |-> volume, limit_idx |-> limit_idx]

Idle == Frame("idle", 0, "", "Buy", 0, 0, 0)

Init ==
    /\ books = EmptyMap
    /\ order_book_map = EmptyMap
    /\ fills = <<>>
    /\ ret = FALSE
    /\ call = Rejected("none")
    /\ crashed = FALSE
    /\ calls = 0
    /\ top = NoTop
    /\ sset = SparseSetNew(INITIAL_SIZE)
    /\ inserted = EmptyMap
    /\ frame = Idle

\* The call ran to its return statement.
Return(out, accepted) ==
    /\ ~out.fault
    /\ books' = out.books
    /\ order_book_map' = out.map
    /\ fills' = out.fills
    /\ ret' = out.ret
    /\ call' = IF out.ret THEN accepted ELSE Rejected(accepted.op)
    /\ crashed' = FALSE
    /\ calls' = calls + 1
    /\ top' = NoTop
    /\ UNCHANGED <<sset, inserted, frame>>

\* The call dereferenced a null or garbage pointer.
Fault(out) ==
    /\ out.fault
    /\ crashed' = TRUE
    /\ calls' = calls + 1
    /\ UNCHANGED <<books, order_book_map, fills, ret, top, call, sset, inserted,
                   frame>>

AddOrderIn(list, limit) ==
    /\ ~crashed
    /\ calls < limit
    /\ \E order_id \in OrderIds, symbol \in SymbolChoices(list), side \in Sides,
          price \in Prices, volume \in Volumes :
         \E out \in add_order(books, order_book_map, order_id, symbol, side,
                              price, volume) :
            \/ Return(out, Call("add", order_id, symbol, side, price, volume))
            \/ Fault(out)

AmendOrderIn(limit) ==
    /\ ~crashed
    /\ calls < limit
    /\ \E order_id \in OrderIds, new_price \in Prices, new_volume \in AmendVolumes :
         \E out \in amend_order(books, order_book_map, order_id, new_price,
                                new_volume) :
            \/ Return(out, Call("amend", order_id, "", "Buy", new_price, new_volume))
            \/ Fault(out)

PullOrderIn(limit) ==
    /\ ~crashed
    /\ calls < limit
    /\ \E order_id \in OrderIds :
         \E out \in pull_order(books, order_book_map, order_id) :
            \/ Return(out, Call("pull", order_id, "", "Buy", 0, 0))
            \/ Fault(out)

AddOrder == AddOrderIn(SymbolList, MaxCalls)

AmendOrder == AmendOrderIn(MaxCalls)

PullOrder == PullOrderIn(MaxCalls)

Next == AddOrder \/ AmendOrder \/ PullOrder

Spec == Init /\ [][Next]_vars

AddOrderMulti == AddOrderIn(MultiSymbolList, MaxCallsMulti)

AmendOrderMulti == AmendOrderIn(MaxCallsMulti)

PullOrderMulti == PullOrderIn(MaxCallsMulti)

NextMulti == AddOrderMulti \/ AmendOrderMulti \/ PullOrderMulti

SpecMulti == Init /\ [][NextMulti]_vars

\* The engine with its read-only query.  get_top_of_book changes nothing in
\* the engine; calls counts the calls that can.
GetTopOfBook ==
    /\ ~crashed
    /\ \E symbol \in SymbolChoices(SymbolList) :
         \E out \in get_top_of_book(books, symbol) :
            \/ /\ ~out.fault
               /\ top' = out.top
               /\ call' = Call("top", 0, symbol, "Buy", 0, 0)
               /\ ret' = FALSE
               /\ fills' = <<>>
               /\ UNCHANGED <<books, order_book_map, crashed, calls, sset, inserted,
                              frame>>
            \/ /\ out.fault
               /\ crashed' = TRUE
               /\ UNCHANGED <<books, order_book_map, fills, ret, top, call, calls,
                              sset, inserted, frame>>

AddOrderTop == AddOrderIn(SymbolList, MaxCallsTop)

AmendOrderTop == AmendOrderIn(MaxCallsTop)

PullOrderTop == PullOrderIn(MaxCallsTop)

NextTop == AddOrderTop \/ AmendOrderTop \/ PullOrderTop \/ GetTopOfBook

SpecTop == Init /\ [][NextTop]_vars

\* The paged directory on its own: a SparseSet<Limit *> as a Book constructs
\* it, and a caller that inserts.  inserted remembers, per index, the
\* element of the last insert.
Indices == {0, 1, ZeroedSlots - 1, ZeroedSlots, PAGE_SIZE - 1, PAGE_SIZE,
            2 * PAGE_SIZE, 2 * PAGE_SIZE + ZeroedSlots,
            9 * PAGE_SIZE + ZeroedSlots}

Elements == 1..MaxElement

SparseInsert ==
    /\ calls < MaxInserts
    /\ \E index \in Indices, element \in Elements :
          /\ sset' = SparseSetInsert(sset, index, element)
          /\ inserted' = MapPut(inserted, index, element)
    /\ calls' = calls + 1
    /\ UNCHANGED <<books, order_book_map, fills, ret, top, call, crashed, frame>>

NextSparse == SparseInsert

SpecSparse == Init /\ [][NextSparse]_vars

\* A Book on its own: Book("X", 1) as the engine constructs it, and a caller
\* of its public insert, amend, detach and remove.  The order ids and prices
\* are positive, as the engine's are.  The prices lie in the part of page 0
\* that memset clears, in the part it does not reach, in page 1, and in a
\* page that the directory allocates on insert.
BookSymbol == "X"

BookIds ==
    LET held == DOMAIN books[BookSymbol].orders
        unknown == (1..MaxBookId) \ held
    IN  held \cup (IF unknown = {} THEN {} ELSE {Min(unknown)})

BookPrices == {1, 2, PAGE_SIZE \div 2, PAGE_SIZE + 1, 3 * PAGE_SIZE}

BookVolumes == 1..MaxVolume

InitBook ==
    /\ books = [sym \in {BookSymbol} |-> NewBook(BookSymbol, UNIT)]
    /\ order_book_map = EmptyMap
    /\ fills = <<>>
    /\ ret = FALSE
    /\ call = Rejected("none")
    /\ crashed = FALSE
    /\ calls = 0
    /\ top = NoTop
    /\ sset = SparseSetNew(INITIAL_SIZE)
    /\ inserted = EmptyMap
    /\ frame = Idle

\* The Book method ran to its return statement; ok is whether it returned
\* an Order (insert, amend, detach) or true (remove).
BookReturn(r, ok, accepted) ==
    /\ ~r.fault
    /\ books' = [books EXCEPT ![BookSymbol] = r.book]
    /\ ret' = ok
    /\ call' = IF ok THEN accepted ELSE Rejected(accepted.op)
    /\ crashed' = FALSE
    /\ calls' = calls + 1
    /\ UNCHANGED <<order_book_map, fills, top, sset, inserted, frame>>

BookInsert ==
    /\ ~crashed
    /\ calls < MaxCallsBook
    /\ \E order_id \in BookIds, side \in Sides, price \in BookPrices,
          volume \in BookVolumes :
         \E r \in Insert(books[BookSymbol], NewOrder(order_id, side, price, volume)) :
            \/ BookReturn(r, r.ret # NULL,
                          Call("insert", order_id, BookSymbol, side, price, volume))
            \/ Fault(r)

BookAmend ==
    /\ ~crashed
    /\ calls < MaxCallsBook
    /\ \E order_id \in BookIds, new_price \in BookPrices, new_volume \in BookVolumes :
         \E r \in Amend(books[BookSymbol], order_id, new_price, new_volume) :
            \/ BookReturn(r, r.ret # NULL,
                          Call("amend", order_id, BookSymbol, "Buy", new_price,
                               new_volume))
            \/ Fault(r)

BookDetach ==
    /\ ~crashed
    /\ calls < MaxCallsBook
    /\ \E order_id \in BookIds :
         \E r \in Detach(books[BookSymbol], order_id) :
            \/ BookReturn(r, r.ret # NULL,
                          Call("detach", order_id, BookSymbol, "Buy", 0, 0))
            \/ Fault(r)

BookRemove ==
    /\ ~crashed
    /\ calls < MaxCallsBook
    /\ \E order_id \in BookIds :
         \E r \in Remove(books[BookSymbol], order_id) :
            \/ BookReturn(r, r.ret,
                          Call("remove", order_id, BookSymbol, "Buy", 0, 0))
            \/ Fault(r)

NextBook == BookInsert \/ BookAmend \/ BookDetach \/ BookRemove

SpecBook == InitBook /\ [][NextBook]_vars

\* The engine with its two loops followed one iteration at a time: the
\* matching loop of add_order on a symbol that has a book, and the rescan of
\* Book::detach in a pull_order of a resting order.  The other calls, and
\* the calls inside an iteration, are made in one step as above.

\* add_order, one evaluation of `while (volume > 0)` and of the loop body:
\* the book, remaining volume and fills it leaves, and whether the loop goes
\* on ("match") or is left ("rest").
MatchIteration(b, side, price, volume, fs) ==
    LET Left(pc, book, v, f) ==
            [fault |-> FALSE, pc |-> pc, book |-> book, volume |-> v, fills |-> f]
        Failed == [fault |-> TRUE, pc |-> "match", book |-> b, volume |-> volume,
                   fills |-> fs]
    IN  IF volume <= 0 THEN {Left("rest", b, volume, fs)}
        ELSE UNION {
            IF id = FAULT THEN {Failed}
            ELSE LET best_match_copy == GetOrderById(b, id)
                     best_id == best_match_copy.order_id
                     best_price == best_match_copy.price
                     best_volume == best_match_copy.volume
                 IN  IF best_id = 0 \/ ~Satisfies(side, best_price, price)
                     THEN {Left("rest", b, volume, fs)}
                     ELSE IF best_volume > volume
                     THEN {IF r.fault THEN Failed
                           ELSE Left("match", r.book, 0,
                                     Append(fs, PartialFill(best_id, best_price,
                                                            best_volume, volume))) :
                              r \in Amend(b, best_id, best_price, best_volume - volume)}
                     ELSE {IF r.fault THEN Failed
                           ELSE Left("match", r.book, volume - best_volume,
                                     Append(fs, Fill(best_id, best_price, best_volume))) :
                              r \in Remove(b, best_id)} :
            id \in GetBestOfferId(b, side)}

\* Book::detach, one evaluation of the loop condition and of the loop body
\* of the rescan: limit_idx and the cached best it leaves, and whether the
\* loop goes on ("scan") or is left ("pulled").  An uninitialised slot holds
\* null, or a pointer through which size is read as positive, as not
\* positive, or not at all.
ScanIteration(b, side, limit_idx) ==
    LET ss == SideSet(b, side)
        next_idx == IF side = "Buy" THEN limit_idx - 1 ELSE limit_idx + 1
        Left(pc, book) ==
            [fault |-> FALSE, pc |-> pc, book |-> book, limit_idx |-> next_idx]
        goes_on == IF side = "Buy" THEN limit_idx >= 0
                   ELSE limit_idx <= SparseSetSize(ss) - 1
    IN  IF ~goes_on
        THEN {[fault |-> FALSE, pc |-> "pulled", book |-> b, limit_idx |-> limit_idx]}
        ELSE UNION {
            IF currLimit = NULL THEN {Left("scan", b)}
            ELSE IF currLimit = GARBAGE
            THEN {Left("scan", b), Left("pulled", SetBest(b, side, GARBAGE)),
                  [fault |-> TRUE, pc |-> "scan", book |-> b, limit_idx |-> next_idx]}
            ELSE IF b.limits[currLimit].size > 0
            THEN {Left("pulled", SetBest(b, side, currLimit))}
            ELSE {Left("scan", b)} :
            currLimit \in SparseSetGet(ss, next_idx)}

AddOrderLoops == frame.pc = "idle" /\ AddOrderIn(SymbolList, MaxCallsLoops)

AmendOrderLoops == frame.pc = "idle" /\ AmendOrderIn(MaxCallsLoops)

PullOrderLoops == frame.pc = "idle" /\ PullOrderIn(MaxCallsLoops)

\* add_order up to its loop: the arguments pass the five tests and the
\* symbol has a book.
EnterAddOrder ==
    /\ frame.pc = "idle"
    /\ ~crashed
    /\ calls < MaxCallsLoops
    /\ \E order_id \in OrderIds, symbol \in DOMAIN books, side \in Sides,
          price \in Prices, volume \in Volumes :
          /\ ~AddRejects(order_book_map, order_id, symbol, price, volume)
          /\ frame' = Frame("match", order_id, symbol, side, price, volume, 0)
          /\ call' = Call("add", order_id, symbol, side, price, volume)
    /\ fills' = <<>>
    /\ ret' = FALSE
    /\ top' = NoTop
    /\ UNCHANGED <<books, order_book_map, crashed, calls, sset, inserted>>

\* One iteration of add_order's loop, or its exit.
MatchStep ==
    /\ frame.pc = "match"
    /\ ~crashed
    /\ \E m \in MatchIteration(books[frame.symbol], frame.side, frame.price,
                                frame.volume, fills) :
          \/ Fault(m)
          \/ /\ ~m.fault
             /\ books' = [books EXCEPT ![frame.symbol] = m.book]
             /\ fills' = m.fills
             /\ frame' = [frame EXCEPT !.pc = m.pc, !.volume = m.volume]
             /\ UNCHANGED <<order_book_map, ret, top, call, crashed, calls, sset,
                            inserted>>

\* add_order after its loop: what is left of the order is inserted, and the
\* call returns true.
RestStep ==
    /\ frame.pc = "rest"
    /\ ~crashed
    /\ IF frame.volume > 0
       THEN \E i \in Insert(books[frame.symbol],
                            NewOrder(frame.order_id, frame.side, frame.price,
                                     frame.volume)) :
               \/ Fault(i)
               \/ /\ ~i.fault
                  /\ books' = [books EXCEPT ![frame.symbol] = i.book]
                  /\ order_book_map' =
                        MapPut(order_book_map, frame.order_id, frame.symbol)
                  /\ ret' = TRUE
                  /\ frame' = Idle
                  /\ calls' = calls + 1
                  /\ UNCHANGED <<fills, top, call, crashed, sset, inserted>>
       ELSE /\ ret' = TRUE
            /\ frame' = Idle
            /\ calls' = calls + 1
            /\ UNCHANGED <<books, order_book_map, fills, top, call, crashed, sset,
                           inserted>>

\* pull_order of an order that rests in its book, up to the rescan of
\* Book::detach: the id is erased from order_book_map, the order is unlinked
\* and the counters are changed; when the cached best is read as exhausted
\* it is reset and the loop is entered.
EnterPullOrder ==
    /\ frame.pc = "idle"
    /\ ~crashed
    /\ calls < MaxCallsScan
    /\ \E order_id \in DOMAIN order_book_map :
          LET symbol == order_book_map[order_id]
              b == books[symbol]
          IN  /\ order_id \in DOMAIN b.orders
              /\ LET o == b.orders[order_id]
                     b1 == AddSideVolume(
                             [b EXCEPT !.orders = UnlinkOrders(b, o),
                                       !.limits = [@ EXCEPT ![o.limit] =
                                                      UnlinkLimit(b, o)],
                                       !.order_count = @ - 1],
                             o.side, 0 - o.volume)
                     Entered(pc, book) ==
                         /\ books' = [books EXCEPT ![symbol] = book]
                         /\ order_book_map' = MapErase(order_book_map, order_id)
                         /\ frame' = Frame(pc, order_id, symbol, o.side, o.price, 0,
                                           o.price \div b.unit)
                         /\ call' = Call("pull", order_id, "", "Buy", 0, 0)
                         /\ fills' = <<>>
                         /\ ret' = FALSE
                         /\ top' = NoTop
                         /\ UNCHANGED <<crashed, calls, sset, inserted>>
                 IN  \E e \in BestExhausted(b1, o.side) :
                        \/ e = "fault" /\ Fault(Faulted(b1))
                        \/ e = "no" /\ Entered("pulled", b1)
                        \/ e = "yes" /\ Entered("scan", SetBest(b1, o.side, NULL))

\* One iteration of the rescan, or its exit.
ScanStep ==
    /\ frame.pc = "scan"
    /\ ~crashed
    /\ \E r \in ScanIteration(books[frame.symbol], frame.side, frame.limit_idx) :
          \/ Fault(r)
          \/ /\ ~r.fault
             /\ books' = [books EXCEPT ![frame.symbol] = r.book]
             /\ frame' = [frame EXCEPT !.pc = r.pc, !.limit_idx = r.limit_idx]
             /\ UNCHANGED <<order_book_map, fills, ret, top, call, crashed, calls,
                            sset, inserted>>

\* pull_order after Book::remove: the call returns true.
PulledStep ==
    /\ frame.pc = "pulled"
    /\ ~crashed
    /\ ret' = TRUE
    /\ frame' = Idle
    /\ calls' = calls + 1
    /\ UNCHANGED <<books, order_book_map, fills, top, call, crashed, sset, inserted>>

NextLoops ==
    \/ AddOrderLoops \/ AmendOrderLoops \/ PullOrderLoops
    \/ EnterAddOrder \/ MatchStep \/ RestStep
    \/ EnterPullOrder \/ ScanStep \/ PulledStep

\* A call that is running takes its next step.
Running ==
    /\ WF_vars(MatchStep)
    /\ WF_vars(RestStep)
    /\ WF_vars(ScanStep)
    /\ WF_vars(PulledStep)

SpecLoops == Init /\ [][NextLoops]_vars /\ Running

---------------------------------------------------------------------------
(* What the properties below read off a state.                             *)

RECURSIVE SumOver(_, _)
SumOver(f, S) ==
    IF S = {} THEN 0
    ELSE LET x == CHOOSE y \in S : TRUE IN f[x] + SumOver(f, S \ {x})

\* The volume resting on `side` of book b, summed over its orders.
RestingVolume(b, side) ==
    SumOver([id \in DOMAIN b.orders |-> b.orders[id].volume],
            {id \in DOMAIN b.orders : b.orders[id].side = side})

FillVolumes(fs) == SumSeq([i \in 1..Len(fs) |-> fs[i].trade_volume])

\* The step is a call of method op that ran to its return statement.
Returned(op) == calls' = calls + 1 /\ ~crashed' /\ call'.op = op

Untouched == books' = books /\ order_book_map' = order_book_map /\ fills' = <<>>

\* The volume order id rests with in book b, 0 when it does not rest.
RestOf(b, id) == IF id \in DOMAIN b.orders THEN b.orders[id].volume ELSE 0

\* The step is an add_order, or an amend_order that pulled and re-added the
\* order, that appended fills.  CallSymbol is the book it matched in,
\* CallSide the side of the incoming order (amend_order re-adds with the side
\* of its copy of the order).
Matched ==
    /\ calls' = calls + 1
    /\ ~crashed'
    /\ call'.op \in {"add", "amend"}
    /\ fills' # <<>>

CallSymbol ==
    IF call'.op = "add" THEN call'.symbol ELSE order_book_map[call'.order_id]

CallSide ==
    IF call'.op = "add" THEN call'.side
    ELSE GetOrderById(books[CallSymbol], call'.order_id).side

Opposite(side) == IF side = "Buy" THEN "Sell" ELSE "Buy"

FillIds(fs) == {fs[i].other_order_id : i \in 1..Len(fs)}

\* Order y is reached from order x by following next links, in n steps at most.
RECURSIVE Follows(_, _, _, _)
Follows(b, x, y, n) ==
    /\ n > 0
    /\ b.orders[x].next # NULL
    /\ \/ b.orders[x].next = y
       \/ Follows(b, b.orders[x].next, y, n - 1)

\* Resting order x has priority over resting order y of the same side: a
\* better price, or the same price and an earlier place in the queue.
Before(b, x, y) ==
    LET ox == b.orders[x]
        oy == b.orders[y]
    IN  /\ ox.side = oy.side
        /\ \/ ox.side = "Sell" /\ ox.price < oy.price
           \/ ox.side = "Buy" /\ ox.price > oy.price
           \/ ox.price = oy.price /\ Follows(b, x, y, b.order_count)

---------------------------------------------------------------------------
(* C1: the fills of an add_order that matched, read in order, consume the  *)
(* opposite side in price-time priority: prices never get better from one  *)
(* fill to the next (non-decreasing for an incoming Buy, non-increasing    *)
(* for a Sell), fills at one price name the counter orders in the order    *)
(* they came to rest at that level, and no opposite-side order with        *)
(* priority over a filled order is left unfilled.                          *)

C1_FillsInPriceTimePriority ==
    [][Matched =>
          LET b == books[CallSymbol]
              opp == {id \in DOMAIN b.orders : b.orders[id].side = Opposite(CallSide)}
          IN  /\ FillIds(fills') \subseteq opp
              /\ \A i \in 1..Len(fills'), j \in 1..Len(fills') :
                    i < j => Before(b, fills'[i].other_order_id,
                                       fills'[j].other_order_id)
              /\ \A x \in opp \ FillIds(fills'), y \in FillIds(fills') :
                    ~Before(b, x, y)]_vars

---------------------------------------------------------------------------
(* C2: every fill of an incoming Buy with limit price p has trade_price    *)
(* <= p, and of an incoming Sell trade_price >= p; trade_price is the      *)
(* price the counter order named by other_order_id rested at; matching     *)
(* stops at the first best counter order that does not cross, so no fill   *)
(* is recorded for an order that does not cross.                           *)

C2_FillsCrossAtRestingPrice ==
    [][Matched =>
          LET b == books[CallSymbol]
          IN  \A i \in 1..Len(fills') :
                 /\ fills'[i].other_order_id \in DOMAIN b.orders
                 /\ fills'[i].trade_price = b.orders[fills'[i].other_order_id].price
                 /\ CallSide = "Buy" => fills'[i].trade_price <= call'.price
                 /\ CallSide = "Sell" => fills'[i].trade_price >= call'.price]_vars

\* A Buy that was filled at its limit price and then stopped at a sell
\* resting above it, so that it rests with what is left.
C2_Witness ==
    /\ call.op = "add" /\ ret /\ call.side = "Buy"
    /\ fills # <<>>
    /\ call.order_id \in DOMAIN books[call.symbol].orders
    /\ \E id \in DOMAIN books[call.symbol].orders :
          /\ books[call.symbol].orders[id].side = "Sell"
          /\ books[call.symbol].orders[id].price > call.price

---------------------------------------------------------------------------
(* C3: after an add_order that returned true for input volume V, either    *)
(* the order rests in the book of its symbol and order_index maps it to    *)
(* that book, or it does not rest and the fills add up to V; in both cases *)
(* the fills' trade_volume plus the volume the order rests with is V.      *)

C3_FillsPlusRestIsVolume ==
    (call.op = "add" /\ ret) =>
        LET b == books[call.symbol]
        IN  /\ FillVolumes(fills) + RestOf(b, call.order_id) = call.volume
            /\ \/ /\ call.order_id \in DOMAIN b.orders
                  /\ call.order_id \in DOMAIN order_book_map
                  /\ order_book_map[call.order_id] = call.symbol
               \/ /\ call.order_id \notin DOMAIN b.orders
                  /\ FillVolumes(fills) = call.volume

\* An add_order that was filled in part and rests with the remainder.
C3_Witness ==
    /\ call.op = "add" /\ ret
    /\ fills # <<>>
    /\ call.order_id \in DOMAIN books[call.symbol].orders
    /\ RestOf(books[call.symbol], call.order_id) < call.volume

---------------------------------------------------------------------------
(* C4: for every fill, the counter order other_order_id rested with a      *)
(* volume w >= trade_volume before the call; after it the order rests with *)
(* w - trade_volume when that is positive and is out of the book when it   *)
(* is zero, and the volume of its level and of its side of the book drop   *)
(* by exactly trade_volume.  The totals are compared across the whole      *)
(* call, so they also count the incoming order: what it rested with before *)
(* (an amended order) and what it rests with after.                        *)

FillsOn(b, fs, ids) ==
    SumSeq([i \in 1..Len(fs) |->
               IF fs[i].other_order_id \in ids THEN fs[i].trade_volume ELSE 0])

C4_FillTakesVolumeFromCounterOrder ==
    [][Matched =>
          LET pre == books[CallSymbol]
              post == books'[CallSymbol]
              id == call'.order_id
              Own(b, ids) == IF id \in ids THEN RestOf(b, id) ELSE 0
              OnSide(b, side) == {x \in DOMAIN b.orders : b.orders[x].side = side}
              AtLimit(b, h) == {x \in DOMAIN b.orders : b.orders[x].limit = h}
          IN  /\ \A i \in 1..Len(fills') :
                    LET f == fills'[i]
                        w == RestOf(pre, f.other_order_id)
                    IN  /\ f.other_order_id \in DOMAIN pre.orders
                        /\ w >= f.trade_volume
                        /\ w - f.trade_volume > 0 =>
                              /\ f.other_order_id \in DOMAIN post.orders
                              /\ RestOf(post, f.other_order_id) = w - f.trade_volume
                        /\ w - f.trade_volume = 0 =>
                              f.other_order_id \notin DOMAIN post.orders
              /\ \A h \in DOMAIN pre.limits :
                    post.limits[h].volume =
                        pre.limits[h].volume
                          - FillsOn(pre, fills', AtLimit(pre, h) \ {id})
                          - Own(pre, AtLimit(pre, h)) + Own(post, AtLimit(post, h))
              /\ post.buy_volume =
                    pre.buy_volume - FillsOn(pre, fills', OnSide(pre, "Buy") \ {id})
                      - Own(pre, OnSide(pre, "Buy")) + Own(post, OnSide(post, "Buy"))
              /\ post.sell_volume =
                    pre.sell_volume - FillsOn(pre, fills', OnSide(pre, "Sell") \ {id})
                      - Own(pre, OnSide(pre, "Sell")) + Own(post, OnSide(post, "Sell"))]_vars

\* Two fills of one call: a counter order taken out whole and one left
\* resting with less.
C4_Witness ==
    /\ call.op = "add" /\ ret
    /\ Len(fills) = 2
    /\ fills[1].other_order_id \notin DOMAIN books[call.symbol].orders
    /\ fills[2].other_order_id \in DOMAIN books[call.symbol].orders
    /\ books[call.symbol].orders[fills[2].other_order_id].volume > 0

---------------------------------------------------------------------------
(* C5: add_order returns false whenever order_id is 0 or already in        *)
(* order_index, the symbol is empty, price <= 0 or volume <= 0, and a call *)
(* that returns false creates no book, inserts no order, leaves            *)
(* order_index alone and appends no fill.  Every call returns true or      *)
(* false, so the first half is: a call that returned true had none of      *)
(* these arguments.                                                        *)

C5_AddRejectsWithoutEffect ==
    [][Returned("add") =>
          /\ ~ret' => Untouched
          /\ ret' => /\ call'.order_id # 0
                     /\ call'.order_id \notin DOMAIN order_book_map
                     /\ call'.symbol # ""
                     /\ call'.price > 0
                     /\ call'.volume > 0]_vars

\* A rejected add_order on an engine that holds a resting order.
C5_Witness ==
    /\ call.op = "add" /\ ~ret
    /\ calls >= 2
    /\ \E sym \in DOMAIN books : books[sym].orders # EmptyMap

---------------------------------------------------------------------------
(* C6: amend_order returns false whenever order_id is unknown in           *)
(* order_index, new_price <= 0 or new_volume <= 0, and a call that returns *)
(* false leaves the engine and every book as they were and emits no fill.  *)
(* Every call returns true or false, so the first half is: a call that     *)
(* returned true had a known id, a positive price and a positive volume.   *)

C6_AmendRejectsWithoutEffect ==
    [][Returned("amend") =>
          /\ ~ret' => Untouched
          /\ ret' => /\ call'.order_id \in DOMAIN order_book_map
                     /\ call'.price > 0
                     /\ call'.volume > 0]_vars

---------------------------------------------------------------------------
(* C7: an order id is a key of order_index if and only if an order with    *)
(* that id rests in exactly one book, and order_index maps it to that      *)
(* book; so an order that an incoming order filled whole is in neither.    *)

BooksHolding(id) == {sym \in DOMAIN books : id \in DOMAIN books[sym].orders}

C7_IndexedIffRestingInOneBook ==
    \A id \in 1..MaxId :
        /\ id \in DOMAIN order_book_map <=> Cardinality(BooksHolding(id)) = 1
        /\ id \in DOMAIN order_book_map => BooksHolding(id) = {order_book_map[id]}

---------------------------------------------------------------------------
(* C8: pull_order and amend_order of an id that rests in no book (never    *)
(* added, pulled, or filled whole) return false, and neither changes a     *)
(* book, creates an order or emits a fill.  Stated on the calls that       *)
(* returned: one that returned true named an order resting in a book, one  *)
(* that returned false left the engine as it was.                          *)

C8_NonRestingIdIsRefused ==
    [][(Returned("pull") \/ Returned("amend")) =>
          /\ ret' => BooksHolding(call'.order_id) # {}
          /\ ~ret' => Untouched]_vars

---------------------------------------------------------------------------
(* C9: in every book order_count is the number of entries of the order     *)
(* map, buy_volume the sum of the volumes of the resting Buy orders and    *)
(* sell_volume the sum of the volumes of the resting Sell orders.          *)

C9_CountersMatchOrders ==
    \A sym \in DOMAIN books :
        LET b == books[sym]
        IN  /\ b.order_count = Cardinality(DOMAIN b.orders)
            /\ b.buy_volume = RestingVolume(b, "Buy")
            /\ b.sell_volume = RestingVolume(b, "Sell")

\* A book with orders on both sides after a fill took volume out of it.
C9_Witness ==
    \E sym \in DOMAIN books :
        /\ fills # <<>>
        /\ books[sym].buy_volume > 0
        /\ books[sym].sell_volume > 0
        /\ books[sym].order_count >= 2

---------------------------------------------------------------------------
(* C10: in every book highest_buy, if set, points to a buy level with      *)
(* size > 0 whose price is the maximum over the buy levels with size > 0,  *)
(* and lowest_sell, if set, to a sell level with size > 0 whose price is   *)
(* the minimum over the sell levels with size > 0.                         *)

Populated(b, side) ==
    {h \in DOMAIN b.limits : h % 2 = SideBit(side) /\ b.limits[h].size > 0}

C10_BestIsBestPopulatedLevel ==
    \A sym \in DOMAIN books :
        LET b == books[sym]
        IN  /\ b.highest_buy # NULL =>
                  /\ b.highest_buy \in Populated(b, "Buy")
                  /\ \A h \in Populated(b, "Buy") :
                        b.limits[h].price <= b.limits[b.highest_buy].price
            /\ b.lowest_sell # NULL =>
                  /\ b.lowest_sell \in Populated(b, "Sell")
                  /\ \A h \in Populated(b, "Sell") :
                        b.limits[h].price >= b.limits[b.lowest_sell].price

---------------------------------------------------------------------------
(* C11: for every price level of every book, size is the number of orders  *)
(* reached from front_order through next links, size = 0 exactly when      *)
(* front_order and tail_order are both null, tail_order is the last order  *)
(* of that chain, prev and next agree with each other, and the level's     *)
(* volume is the sum of the volumes of the orders in its queue.            *)

\* The ids reached from order id through next links, n at most.
RECURSIVE ChainFrom(_, _, _)
ChainFrom(b, id, n) ==
    IF id = NULL \/ n = 0 \/ id \notin DOMAIN b.orders THEN <<>>
    ELSE <<id>> \o ChainFrom(b, b.orders[id].next, n - 1)

\* The queue of level h of book b, front first.
Queue(b, h) == ChainFrom(b, b.limits[h].front_order, b.order_count + 1)

C11_LevelQueueWellFormed ==
    \A sym \in DOMAIN books :
        LET b == books[sym]
        IN  \A h \in DOMAIN b.limits :
               LET lim == b.limits[h]
                   q == Queue(b, h)
               IN  /\ lim.size = Len(q)
                   /\ lim.size = 0 <=> (lim.front_order = NULL /\ lim.tail_order = NULL)
                   /\ lim.front_order # NULL => lim.front_order \in DOMAIN b.orders
                   /\ q # <<>> =>
                         /\ lim.tail_order = q[Len(q)]
                         /\ b.orders[q[Len(q)]].next = NULL
                         /\ b.orders[q[1]].prev = NULL
                   /\ \A i \in 2..Len(q) : b.orders[q[i]].prev = q[i - 1]
                   /\ lim.volume = SumSeq([i \in 1..Len(q) |-> b.orders[q[i]].volume])

\* A pull took an order out of a level that still queues two orders.
C11_Witness ==
    /\ call.op = "pull" /\ ret
    /\ \E sym \in DOMAIN books :
          \E h \in DOMAIN books[sym].limits :
             /\ books[sym].limits[h].size = 2
             /\ Cardinality(DOMAIN books[sym].orders) = 2

---------------------------------------------------------------------------
(* C12: every order of a book's order-id map is in the queue of exactly    *)
(* one price level; that level is the one registered on the order's own    *)
(* side at the order's tick, the order's limit pointer points to it, and   *)
(* its price is the order's price.  Conversely every order in a level      *)
(* queue is in the order-id map.                                           *)

QueueIds(b, h) == {Queue(b, h)[i] : i \in 1..Len(Queue(b, h))}

\* The levels registered in the directory of `side`.
Registered(b, side) ==
    LET ss == IF side = "Buy" THEN b.buy_set ELSE b.sell_set
    IN  UNION {SparseSetGet(ss, i) : i \in SparseSetWritten(ss)}

C12_OrderInItsOwnLevel ==
    \A sym \in DOMAIN books :
        LET b == books[sym]
        IN  /\ \A id \in DOMAIN b.orders :
                  LET o == b.orders[id]
                  IN  /\ o.order_id = id
                      /\ {h \in DOMAIN b.limits : id \in QueueIds(b, h)} = {o.limit}
                      /\ o.limit \in Registered(b, o.side)
                      /\ o.limit \notin Registered(b, Opposite(o.side))
                      /\ b.limits[o.limit].price = o.price
            /\ \A h \in DOMAIN b.limits :
                  LET lim == b.limits[h]
                  IN  /\ lim.front_order # NULL => lim.front_order \in DOMAIN b.orders
                      /\ lim.tail_order # NULL => lim.tail_order \in DOMAIN b.orders
                      /\ \A id \in QueueIds(b, h) :
                            b.orders[id].next # NULL =>
                                b.orders[id].next \in DOMAIN b.orders

\* Three resting orders in three levels, on both sides of one book.
C12_Witness ==
    \E sym \in DOMAIN books :
        LET b == books[sym]
        IN  /\ Cardinality(DOMAIN b.orders) = 3
            /\ Cardinality({b.orders[id].limit : id \in DOMAIN b.orders}) = 3
            /\ b.buy_volume > 0 /\ b.sell_volume > 0

---------------------------------------------------------------------------
(* C13: amend_order(id, p, v') on an order resting at price p with volume  *)
(* v, 0 < v' <= v, emits no fill and changes nothing but the order's       *)
(* volume and, by v' - v, the volume of its level and of its side: every   *)
(* queue, with the order's place in it, and order_index stay as they were. *)

\* The step is an amend_order that returned true for an order resting at
\* the price it names, with a volume that is positive and not above the
\* order's.
AmendedDown ==
    /\ Returned("amend") /\ ret'
    /\ call'.order_id \in DOMAIN order_book_map
    /\ LET b == books[order_book_map[call'.order_id]]
       IN  /\ call'.order_id \in DOMAIN b.orders
           /\ b.orders[call'.order_id].price = call'.price
           /\ call'.volume > 0
           /\ call'.volume <= b.orders[call'.order_id].volume

---------------------------------------------------------------------------
(* C14: for an order id resting with side s in the book of symbol S,       *)
(* amend_order(id, p, v) with p > 0, v > 0 and p other than the order's    *)
(* price or v above its volume ends in the state, and appends the fills,   *)
(* of pull_order(id) followed by add_order(id, S, s, p, v): the order is   *)
(* matched against the opposite side again and, if it rests, is the last   *)
(* of its level.                                                           *)

\* The step is an amend_order that returned true for a resting order, to
\* another price or to a larger volume.
AmendedAway ==
    /\ Returned("amend") /\ ret'
    /\ call'.order_id \in DOMAIN order_book_map
    /\ LET b == books[order_book_map[call'.order_id]]
       IN  /\ call'.order_id \in DOMAIN b.orders
           /\ call'.price > 0
           /\ call'.volume > 0
           /\ \/ call'.price # b.orders[call'.order_id].price
              \/ call'.volume > b.orders[call'.order_id].volume

C14_AmendAwayIsPullThenAdd ==
    [][AmendedAway =>
          LET id == call'.order_id
              sym == order_book_map[id]
              o == books[sym].orders[id]
          IN  /\ \E p \in pull_order(books, order_book_map, id) :
                    /\ ~p.fault /\ p.ret
                    /\ \E a \in add_order(p.books, p.map, id, sym, o.side,
                                           call'.price, call'.volume) :
                          /\ ~a.fault /\ a.ret
                          /\ books' = a.books
                          /\ order_book_map' = a.map
                          /\ fills' = a.fills
              /\ id \in DOMAIN books'[sym].orders =>
                    LET after == books'[sym].orders[id]
                    IN  /\ after.side = o.side
                        /\ after.price = call'.price
                        /\ after.volume + FillVolumes(fills') = call'.volume
                        /\ books'[sym].limits[after.limit].tail_order = id
              /\ id \notin DOMAIN books'[sym].orders =>
                    /\ id \notin DOMAIN order_book_map'
                    /\ FillVolumes(fills') = call'.volume]_vars

\* An amended Sell that was filled in part on its way back into the book.
C14_Witness ==
    /\ call.op = "amend" /\ ret
    /\ fills # <<>>
    /\ call.order_id \in DOMAIN order_book_map
    /\ LET b == books[order_book_map[call.order_id]]
       IN  /\ call.order_id \in DOMAIN b.orders
           /\ b.orders[call.order_id].side = "Sell"
           /\ b.orders[call.order_id].volume < call.volume

---------------------------------------------------------------------------
(* C15: if add_order(id, ...) returns true, emits no fill and rests the    *)
(* whole order, a pull_order(id) that follows at once returns true and     *)
(* puts the book back as it was before the add: order_count, buy_volume,   *)
(* sell_volume, best bid and best ask, every level queue, and order_index  *)
(* (a book that the add created is left empty, all counters zero).         *)

\* What the property compares of a book: the counters, the cached bests,
\* the orders with their links, and per Limit its size, volume and ends.
\* A Limit that queues nothing counts as absent.
Observable(b) ==
    [order_count |-> b.order_count,
     buy_volume |-> b.buy_volume,
     sell_volume |-> b.sell_volume,
     highest_buy |-> b.highest_buy,
     lowest_sell |-> b.lowest_sell,
     orders |-> b.orders,
     levels |-> [h \in {x \in DOMAIN b.limits : b.limits[x].size # 0} |->
                    b.limits[h]]]

\* The step is an add_order that returned true without a fill and rested
\* the order with its whole volume.
AddedWhole ==
    /\ Returned("add") /\ ret'
    /\ fills' = <<>>
    /\ call'.order_id \in DOMAIN books'[call'.symbol].orders
    /\ books'[call'.symbol].orders[call'.order_id].volume = call'.volume

C15_PullUndoesAdd ==
    [][AddedWhole =>
          LET sym == call'.symbol
              before == IF sym \in DOMAIN books THEN books[sym]
                        ELSE NewBook(sym, UNIT)
          IN  \A p \in pull_order(books', order_book_map', call'.order_id) :
                 /\ ~p.fault
                 /\ p.ret
                 /\ p.fills = <<>>
                 /\ p.map = order_book_map
                 /\ DOMAIN p.books = DOMAIN books'
                 /\ \A other \in DOMAIN p.books \ {sym} : p.books[other] = books[other]
                 /\ Observable(p.books[sym]) = Observable(before)]_vars

---------------------------------------------------------------------------
(* C16: for a resting order id, if amend_order(id, p, v) returns true      *)
(* without a fill, a second amend_order(id, p, v) returns true, emits no   *)
(* fill and leaves every book and order_index as the first call left them. *)

\* The step is an amend_order of a resting order that returned true and
\* emitted no fill.
AmendedQuietly ==
    /\ Returned("amend") /\ ret'
    /\ fills' = <<>>
    /\ call'.order_id \in DOMAIN order_book_map
    /\ call'.order_id \in DOMAIN books[order_book_map[call'.order_id]].orders

C16_AmendTwiceIsAmendOnce ==
    [][AmendedQuietly =>
          \A out \in amend_order(books', order_book_map', call'.order_id,
                                  call'.price, call'.volume) :
             /\ ~out.fault
             /\ out.ret
             /\ out.fills = <<>>
             /\ out.books = books'
             /\ out.map = order_book_map']_vars

---------------------------------------------------------------------------
(* C17: get_top_of_book(symbol) returns as bid_price the highest price of  *)
(* a resting Buy order of the symbol and as bid_volume the sum of the      *)
(* volumes of the resting Buy orders at that price, as ask_price and       *)
(* ask_volume the same of the lowest-priced resting Sell orders; the two   *)
(* fields of a side without resting order are 0, and all four are 0 for a  *)
(* symbol without book.                                                    *)

\* The resting orders of `side` in book b, and those at its best price.
RestingOn(b, side) == {id \in DOMAIN b.orders : b.orders[id].side = side}

BestPriceOf(b, side) ==
    LET prices == {b.orders[id].price : id \in RestingOn(b, side)}
    IN  IF prices = {} THEN 0
        ELSE IF side = "Buy" THEN Max(prices) ELSE Min(prices)

VolumeAtBest(b, side) ==
    SumOver([id \in DOMAIN b.orders |-> b.orders[id].volume],
            {id \in RestingOn(b, side) : b.orders[id].price = BestPriceOf(b, side)})

C17_TopOfBookIsBestLevels ==
    call.op = "top" =>
        IF call.symbol \notin DOMAIN books THEN top = BestBidOffer(0, 0, 0, 0)
        ELSE LET b == books[call.symbol]
             IN  top = BestBidOffer(VolumeAtBest(b, "Buy"), BestPriceOf(b, "Buy"),
                                    VolumeAtBest(b, "Sell"), BestPriceOf(b, "Sell"))

---------------------------------------------------------------------------
(* C18: add_order with valid arguments for a symbol that has no book       *)
(* returns true and emits no fill; it creates the book, rests the order in *)
(* it with its whole volume and registers it in order_index; the books of  *)
(* the other symbols are left as they were.                                *)

\* The book of symbol sym holds order id alone, with the given side, price
\* and volume, as the best of its side.
HoldsJust(b, sym, id, side, price, volume) ==
    /\ b.symbol = sym
    /\ DOMAIN b.orders = {id}
    /\ b.orders[id].side = side
    /\ b.orders[id].price = price
    /\ b.orders[id].volume = volume
    /\ b.order_count = 1
    /\ b.buy_volume = (IF side = "Buy" THEN volume ELSE 0)
    /\ b.sell_volume = (IF side = "Sell" THEN volume ELSE 0)
    /\ BestOf(b, side) = b.orders[id].limit
    /\ BestOf(b, Opposite(side)) = NULL

---------------------------------------------------------------------------
(* C19: after any sequence of add_order, amend_order and pull_order calls, *)
(* with arguments valid or not, every order resting in a book has          *)
(* price > 0 and volume > 0.                                               *)

C19_RestingOrdersArePositive ==
    \A sym \in DOMAIN books :
        \A id \in DOMAIN books[sym].orders :
            /\ books[sym].orders[id].price > 0
            /\ books[sym].orders[id].volume > 0

---------------------------------------------------------------------------
(* C20: after any sequence of insert(k, v) calls on the paged directory,   *)
(* operator[](k) returns the element of the last insert at k, for every    *)
(* index k written so far; and an insert at index j, also one that grows   *)
(* the page table or allocates a page, does not change what is read at any *)
(* other index.                                                            *)

\* Every index written so far reads back the element last inserted there.
ReadsBack(ss, ins) == \A k \in DOMAIN ins : SparseSetGet(ss, k) = {ins[k]}

C20_InsertThenReadBack ==
    [][\A j \in Indices, element \in Elements :
          (/\ calls' = calls + 1
           /\ sset' = SparseSetInsert(sset, j, element)
           /\ inserted' = MapPut(inserted, j, element)) =>
              /\ ReadsBack(sset', inserted')
              /\ \A k \in Indices \ {j} :
                    SparseSetGet(sset', k) = SparseSetGet(sset, k)]_vars

---------------------------------------------------------------------------
(* C21: in the paged directory operator[](k) returns the sentinel 0 for    *)
(* every index k that was never written: beyond the page table, in a page  *)
(* that was never allocated, and at every offset 0..PAGE_SIZE-1 of an      *)
(* allocated page, so that every slot of a fresh page reads as 0.          *)

C21_UnwrittenReadsSentinel ==
    \A k \in Indices \ DOMAIN inserted : SparseSetGet(sset, k) = {NULL}

---------------------------------------------------------------------------
(* C22: when Book::detach or Book::remove takes the last order out of the  *)
(* cached best level of its side, the cached best becomes the nearest      *)
(* level in the worse direction (lower for buys, higher for sells) with    *)
(* size > 0, whatever lies in between and whichever page it is in, and     *)
(* becomes null exactly when no level of that side has size > 0; when the  *)
(* order was not the last of the best level the cached best is unchanged.  *)

\* The levels of `side` with size > 0 that are worse than price.
WorseLevels(b, side, price) ==
    {h \in Populated(b, side) :
        IF side = "Buy" THEN b.limits[h].price < price
                        ELSE b.limits[h].price > price}

\* The cached best of its side that taking order id out of book b is to
\* leave behind.
BestAfterTaking(b, id) ==
    LET o == b.orders[id]
        worse == WorseLevels(b, o.side, o.price)
    IN  IF BestOf(b, o.side) = o.limit /\ b.limits[o.limit].size = 1
        THEN IF worse = {} THEN NULL
             ELSE CHOOSE h \in worse :
                     \A g \in worse :
                        IF o.side = "Buy" THEN b.limits[g].price <= b.limits[h].price
                                          ELSE b.limits[g].price >= b.limits[h].price
        ELSE BestOf(b, o.side)

\* Outcome r of taking order id out of book b leaves the cached best so.
TakenWell(b, id, r) ==
    /\ ~r.fault
    /\ BestOf(r.book, b.orders[id].side) = BestAfterTaking(b, id)
    /\ (BestOf(b, b.orders[id].side) = b.orders[id].limit
           /\ b.limits[b.orders[id].limit].size = 1) =>
          (BestOf(r.book, b.orders[id].side) = NULL
              <=> Populated(r.book, b.orders[id].side) = {})

C22_BestMovesToNextLevel ==
    ~crashed =>
        \A sym \in DOMAIN books :
            \A id \in DOMAIN books[sym].orders :
                /\ \A r \in Detach(books[sym], id) : TakenWell(books[sym], id, r)
                /\ \A r \in Remove(books[sym], id) : TakenWell(books[sym], id, r)

---------------------------------------------------------------------------
(* C23: Book::insert of an order whose id is already in the book returns   *)
(* null, and Book::amend, Book::detach and Book::remove of an id that is   *)
(* not in the book return null / false; each of these calls leaves the     *)
(* order map, every level queue, order_count, buy_volume, sell_volume and  *)
(* the cached bests as they were.  Stated on the book a call is about to   *)
(* be made on (every such call has that one outcome) and on the call made  *)
(* (one that returned null / false changed nothing, one that returned an   *)
(* order / true was an insert of a new id or named an id of the book).     *)

\* The step is a call of a Book method that ran to its return statement.
BookCalled ==
    /\ calls' = calls + 1
    /\ ~crashed'
    /\ call'.op \in {"insert", "amend", "detach", "remove"}

C23_BookRejectsWithoutEffect ==
    [][BookCalled =>
          LET b == books[BookSymbol]
          IN  /\ \A id \in DOMAIN b.orders, side \in Sides, price \in BookPrices,
                    volume \in BookVolumes :
                    Insert(b, NewOrder(id, side, price, volume)) = {Done(b, NULL)}
              /\ \A id \in (0..MaxBookId) \ DOMAIN b.orders :
                    /\ \A price \in BookPrices, volume \in BookVolumes :
                          Amend(b, id, price, volume) = {Done(b, NULL)}
                    /\ Detach(b, id) = {Done(b, NULL)}
                    /\ \A r \in Remove(b, id) : ~r.fault /\ ~r.ret /\ r.book = b
              /\ ~ret' => books' = books
              /\ (ret' /\ call'.op = "insert") => call'.order_id \notin DOMAIN b.orders
              /\ (ret' /\ call'.op # "insert") => call'.order_id \in DOMAIN b.orders]_vars

\* A Book method refused its call on a book that holds orders on both
\* sides.
C23_Witness ==
    /\ call.op \in {"insert", "amend", "detach", "remove"}
    /\ ~ret
    /\ ~crashed
    /\ \E sym \in DOMAIN books :
          /\ books[sym].buy_volume > 0
          /\ books[sym].sell_volume > 0
          /\ books[sym].highest_buy # NULL
          /\ books[sym].lowest_sell # NULL

---------------------------------------------------------------------------
(* C24: when the incoming order is exhausted by a counter order whose      *)
(* volume is strictly larger than what was left of the incoming volume,    *)
(* the counter order stays resting at the head of its level with the       *)
(* reduced volume, its level stays the cached best of its side, and the    *)
(* next add_order on that book that crosses it names it in its first fill. *)

\* The step is an add_order (or the re-add of an amend_order) whose last
\* fill took less than the whole volume of the counter order it names.
ExhaustedByLarger ==
    /\ Matched
    /\ LET f == fills'[Len(fills')]
           pre == books[CallSymbol]
       IN  /\ f.other_order_id \in DOMAIN pre.orders
           /\ pre.orders[f.other_order_id].volume > f.trade_volume

C24_PartlyFilledCounterStaysBest ==
    [][ExhaustedByLarger =>
          LET sym == CallSymbol
              f == fills'[Len(fills')]
              id == f.other_order_id
              pre == books[sym]
              post == books'[sym]
          IN  /\ id \in DOMAIN post.orders
              /\ post.orders[id].volume = pre.orders[id].volume - f.trade_volume
              /\ post.orders[id].prev = NULL
              /\ post.limits[post.orders[id].limit].front_order = id
              /\ BestOf(post, post.orders[id].side) = post.orders[id].limit
              /\ call'.order_id \notin DOMAIN post.orders
              /\ \A next_id \in (1..MaxId) \ DOMAIN order_book_map',
                    price \in 1..MaxPrice, volume \in 1..MaxVolume :
                    Satisfies(Opposite(post.orders[id].side),
                              post.orders[id].price, price) =>
                       \A out \in add_order(books', order_book_map', next_id, sym,
                                             Opposite(post.orders[id].side),
                                             price, volume) :
                          ~out.fault =>
                             /\ out.ret
                             /\ out.fills # <<>>
                             /\ out.fills[1].other_order_id = id]_vars

---------------------------------------------------------------------------
(* C25: no book is crossed at rest: after every add_order, amend_order and *)
(* pull_order call, in every book that holds a resting Buy and a resting   *)
(* Sell order, the highest resting Buy price is strictly below the lowest  *)
(* resting Sell price.                                                     *)

C25_BookNeverCrossed ==
    \A sym \in DOMAIN books :
        LET b == books[sym]
        IN  (RestingOn(b, "Buy") # {} /\ RestingOn(b, "Sell") # {}) =>
                BestPriceOf(b, "Buy") < BestPriceOf(b, "Sell")

---------------------------------------------------------------------------
(* C26: an engine call works on one book: add_order for symbol S, and      *)
(* amend_order and pull_order of an order that order_index gives to the    *)
(* book of S, leave the book of every other symbol as it was (orders,      *)
(* level queues, counters, cached bests), and no fill they emit names an   *)
(* order resting in the book of another symbol.                            *)

\* The step is an add_order, amend_order or pull_order that returned true.
Accepted ==
    /\ calls' = calls + 1
    /\ ~crashed'
    /\ call'.op \in {"add", "amend", "pull"}
    /\ ret'

C26_CallConfinedToOneBook ==
    [][Accepted =>
          /\ CallSymbol \in DOMAIN books'
          /\ \A other \in DOMAIN books \ {CallSymbol} :
                /\ other \in DOMAIN books'
                /\ books'[other] = books[other]
                /\ FillIds(fills') \cap DOMAIN books[other].orders = {}
          /\ \A other \in DOMAIN books' \ {CallSymbol} : other \in DOMAIN books]_vars

\* An add_order that was filled in the book of one symbol while an order
\* rests in the book of another.
C26_Witness ==
    /\ call.op = "add" /\ ret
    /\ fills # <<>>
    /\ \E other \in DOMAIN books \ {call.symbol} : books[other].orders # EmptyMap

---------------------------------------------------------------------------
(* C27: every fill that add_order or amend_order appends, after any        *)
(* sequence of engine calls, has trade_volume > 0 and names in             *)
(* other_order_id an order that rested on the opposite side of the same    *)
(* book when the call began.                                               *)

C27_FillsArePositiveAndOpposite ==
    [][Matched =>
          LET b == books[CallSymbol]
          IN  \A i \in 1..Len(fills') :
                 /\ fills'[i].trade_volume > 0
                 /\ fills'[i].other_order_id \in DOMAIN b.orders
                 /\ b.orders[fills'[i].other_order_id].side = Opposite(CallSide)]_vars

---------------------------------------------------------------------------
(* C28: every add_order, amend_order and pull_order call terminates from   *)
(* every reachable state.  Each iteration of the matching loop exhausts    *)
(* the incoming volume, removes one resting counter order, or breaks, so   *)
(* that one add_order emits at most as many fills as there were resting    *)
(* orders on the opposite side of the book; and the rescan of Book::detach *)
(* ends after at most one pass over the tick range of the side: limit_idx  *)
(* moves one tick per iteration, in one direction, and stays between -1    *)
(* and the size of the directory.                                          *)

\* A call made in one step emitted no more fills than the opposite side of
\* its book held orders.
FillsBounded ==
    (frame.pc = "idle" /\ frame'.pc = "idle" /\ Matched) =>
        Len(fills') <= Cardinality(RestingOn(books[CallSymbol], Opposite(CallSide)))

\* An iteration of the matching loop after which the loop goes on has
\* appended one fill and either exhausted the incoming volume or removed
\* the order it names from the opposite side of the book; leaving the loop
\* changes neither the book nor the fills.
IterationAdvances ==
    (frame.pc = "match" /\ ~crashed') =>
        LET b == books[frame.symbol]
            opp == Opposite(frame.side)
        IN  IF frame'.pc = "match"
            THEN /\ Len(fills') = Len(fills) + 1
                 /\ SubSeq(fills', 1, Len(fills)) = fills
                 /\ \/ frame'.volume = 0
                    \/ LET id == fills'[Len(fills')].other_order_id
                       IN  /\ id \in RestingOn(b, opp)
                           /\ RestingOn(books'[frame.symbol], opp) =
                                  RestingOn(b, opp) \ {id}
            ELSE /\ frame'.pc = "rest"
                 /\ fills' = fills
                 /\ books' = books

\* An iteration of the rescan after which the loop goes on has moved
\* limit_idx by one tick away from the order's tick, within the directory.
ScanAdvances ==
    (frame.pc = "scan" /\ frame'.pc = "scan" /\ ~crashed') =>
        LET size == SparseSetSize(SideSet(books[frame.symbol], frame.side))
        IN  /\ frame'.limit_idx =
                  (IF frame.side = "Buy" THEN frame.limit_idx - 1
                                         ELSE frame.limit_idx + 1)
            /\ frame'.limit_idx >= -1
            /\ frame'.limit_idx <= size
            /\ books' = books

C28_CallsTerminate ==
    /\ [][FillsBounded /\ IterationAdvances /\ ScanAdvances]_vars
    /\ (frame.pc # "idle") ~> (frame.pc = "idle" \/ crashed)

====
